---------------------------- MODULE Spec2Model ----------------------------
(***************************************************************************)
(* Model of the funksteckdose crate (src/src/lib.rs): the encoders, the    *)
(* protocol table and the transmitter Funksteckdose<T, E, P>.              *)
(*                                                                         *)
(* Strings are sequences of one-character strings, so "10001" is           *)
(* <<"1","0","0","0","1">>.  All modelled inputs are ASCII, hence the byte *)
(* length str::len() is Len().                                             *)
(***************************************************************************)
EXTENDS Integers, Sequences, FiniteSets, TLC

VARIABLES
    pc,               \* position of the caller / of send_tri_state
    encoding,         \* generic parameter E of the handle
    protocol,         \* generic parameter P of the handle
    repeat_transmit,  \* Funksteckdose.repeat_transmit
    group,            \* argument of the running send / encode
    device,           \* argument of the running send / encode
    state,            \* argument of the running send / encode
    code_word,        \* send_tri_state: code_word
    code,             \* send_tri_state: the folded u64 code
    rep,              \* send_tri_state: completed iterations of the outer loop
    idx,              \* send_tri_state: inner loop index i, SyncIdx for the sync pair
    writes,           \* the Pin: values of the set calls issued so far
    pulses,           \* the HighLow pairs handed to transmit so far
    elapsed,          \* microseconds spent in delay so far
    pin_errs,         \* the Pin: how many of its set calls returned Err
    result            \* what the running call has returned (NoResult while running)

vars == <<pc, encoding, protocol, repeat_transmit, group, device, state,
          code_word, code, rep, idx, writes, pulses, elapsed, pin_errs, result>>

---------------------------------------------------------------------------
(* Bounds of the model *)

\* largest repeat count handed to with_repeat_transmit
MaxRepeat == 2

\* longest tri-state word handed directly to send_tri_state
MaxWordLen == 3

---------------------------------------------------------------------------
(* Value types *)

Low  == "Low"
High == "High"

Devices == {"A", "B", "C", "D", "E"}

States == {"On", "Off"}

Encodings == {"EncodingA", "EncodingB", "EncodingC"}

Protocols == {"Protocol1", "Protocol2", "Protocol3", "Protocol4", "Protocol5",
              "ProtocolHT6P20B", "ProtocolHS2303"}

HighLow(high, low) == [high |-> high, low |-> low]

ProtocolValues(pulse_length, sync_factor, zero, one, inverted_signal) ==
    [pulse_length |-> pulse_length, sync_factor |-> sync_factor,
     zero |-> zero, one |-> one, inverted_signal |-> inverted_signal]

Values(P) ==
    CASE P = "Protocol1" ->
           ProtocolValues(350, HighLow(1, 31), HighLow(1, 3), HighLow(3, 1), FALSE)
      [] P = "Protocol2" ->
           ProtocolValues(650, HighLow(1, 10), HighLow(1, 2), HighLow(2, 1), FALSE)
      [] P = "Protocol3" ->
           ProtocolValues(100, HighLow(30, 71), HighLow(4, 11), HighLow(9, 6), FALSE)
      [] P = "Protocol4" ->
           ProtocolValues(380, HighLow(1, 6), HighLow(1, 3), HighLow(3, 1), FALSE)
      [] P = "Protocol5" ->
           ProtocolValues(500, HighLow(6, 14), HighLow(1, 2), HighLow(2, 1), FALSE)
      [] P = "ProtocolHT6P20B" ->
           ProtocolValues(450, HighLow(23, 1), HighLow(1, 2), HighLow(2, 1), TRUE)
      [] P = "ProtocolHS2303" ->
           ProtocolValues(150, HighLow(2, 62), HighLow(1, 6), HighLow(6, 1), FALSE)

---------------------------------------------------------------------------
(* Results: Ok(v), Err(Error), or a panic unwinding out of the call *)

NoResult == [tag |-> "None"]

Ok(v) == [tag |-> "Ok", val |-> v]

Unit == <<>>

InvalidGroup(s) == [tag |-> "Err", kind |-> "InvalidGroup", arg |-> s]

\* whatever Error value the Pin implementation returned from set
PinError == [tag |-> "Err", kind |-> "PinDriver"]

\* unimplemented!() panics with the message "not implemented"
Unimplemented == [tag |-> "Panic", msg |-> "not implemented"]

---------------------------------------------------------------------------
(* Encoders *)

DevicePattern(d) ==
    CASE d = "A" -> <<"1", "0", "0", "0", "0">>
      [] d = "B" -> <<"0", "1", "0", "0", "0">>
      [] d = "C" -> <<"0", "0", "1", "0", "0">>
      [] d = "D" -> <<"0", "0", "0", "1", "0">>
      [] d = "E" -> <<"0", "0", "0", "0", "1">>

\* mutant: the suffixes of On and Off exchanged
StateSuffix_Swapped(s) == IF s = "On" THEN <<"0", "1">> ELSE <<"1", "0">>

StateSuffix(s) == IF s = "On" THEN <<"1", "0">> ELSE <<"0", "1">>

MapChar(c) == IF c = "0" THEN "F" ELSE "0"

\* mutant: only the length of the group is validated
GroupRejected_LengthOnly(g) == Len(g) # 5

GroupRejected(g) ==
    Len(g) # 5 \/ \E k \in 1..Len(g) : g[k] # "0" /\ g[k] # "1"

EncodingA_encode(g, d, s) ==
    IF GroupRejected(g)
    THEN InvalidGroup(g)
    ELSE LET chars == g \o DevicePattern(d) \o StateSuffix(s)
         IN  Ok([k \in 1..Len(chars) |-> MapChar(chars[k])])

EncodingB_encode(g, d, s) == Unimplemented

EncodingC_encode(g, d, s) == Unimplemented

Encode(E, g, d, s) ==
    CASE E = "EncodingA" -> EncodingA_encode(g, d, s)
      [] E = "EncodingB" -> EncodingB_encode(g, d, s)
      [] E = "EncodingC" -> EncodingC_encode(g, d, s)

---------------------------------------------------------------------------
(* Inputs *)

BinChars == {"0", "1"}

ValidGroups == [1..5 -> BinChars]

InvalidGroups ==
    { <<>>,
      <<"1", "0", "0", "1">>,
      <<"1", "0", "0", "1", "1", "1">>,
      <<"1", "0", "0", "2", " ", "1">>,
      <<"a", "b", "c", "d", "e">>,
      <<"1", "0", "0", "0">>,
      <<"1", "0", "2", "0", "1">> }

Groups == ValidGroups \cup InvalidGroups


\* the groups sent through the transmitter: those of the documented examples
\* ("10001", "11111", "00000") and three mixed switch patterns
SendGroups ==
    { <<"1", "0", "0", "0", "1">>,
      <<"1", "1", "1", "1", "1">>,
      <<"0", "0", "0", "0", "0">>,
      <<"0", "1", "0", "1", "0">>,
      <<"0", "0", "1", "1", "0">>,
      <<"1", "1", "1", "0", "0">> }

TriSymbols == {"0", "F", "1"}

TriWords == UNION { [1..n -> TriSymbols] : n \in 0..MaxWordLen }

\* the words send_tri_state is applied to: short words over all three symbols,
\* and the 12-symbol words encoding A produces
TriInputs ==
    TriWords \cup { EncodingA_encode(g, d, s).val :
                       g \in SendGroups, d \in Devices, s \in States }

---------------------------------------------------------------------------
(* Transmitter: pure parts of send_tri_state and transmit *)

\* Funksteckdose::new passes this count to with_repeat_transmit
DefaultRepeat == 10

\* value of idx while the sync pair, which follows bit 0, is transmitted
SyncIdx == -1

\* mutant: 'F' packed as bit pattern 10
FoldStep_FloatAsTen(acc, c) ==
    CASE c = "0" -> acc * 4
      [] c = "F" -> acc * 4 + 2
      [] c = "1" -> acc * 4 + 3

\* one step of the fold: code <<= 2, then or in the symbol's bit pattern.
\* The accumulator is a u64; every word of the model has at most 12 symbols,
\* so the value stays below 2^24 and the shift never drops a bit.
FoldStep(acc, c) ==
    CASE c = "0" -> acc * 4
      [] c = "F" -> acc * 4 + 1
      [] c = "1" -> acc * 4 + 3

RECURSIVE FoldCode(_, _)
FoldCode(acc, w) ==
    IF w = <<>> THEN acc ELSE FoldCode(FoldStep(acc, Head(w)), Tail(w))

PackCode(w) == FoldCode(0, w)

\* code & (1 << i) != 0
BitSet(c, i) == (c \div (2 ^ i)) % 2 = 1

\* mutant: the inverted_signal flag is ignored
First_AlwaysHigh(P) == High

First(P) == IF Values(P).inverted_signal THEN Low ELSE High

\* mutant: the second level of a pair is not the opposite of the first
Second_SameAsFirst(P) == First(P)

Second(P) == IF Values(P).inverted_signal THEN High ELSE Low

WordLength(w) == Len(w) * 2

\* the HighLow pair the loop hands to transmit at inner index i
PulseAt(P, c, i) ==
    IF i = SyncIdx THEN Values(P).sync_factor
    ELSE IF BitSet(c, i) THEN Values(P).one ELSE Values(P).zero

\* delay spins at least micros microseconds, and not at all for 0
Delay(micros) == IF micros > 0 THEN micros ELSE 0

\* index the inner loop (0..length).rev() starts with; the sync pair when empty
FirstIdx(w) == IF WordLength(w) > 0 THEN WordLength(w) - 1 ELSE SyncIdx

\* mutant: the outer loop runs once more than repeat_transmit
LoopPc_OffByOne(r, n) == IF r <= n THEN "first" ELSE "disable"

\* position reached once the outer loop has completed r iterations
LoopPc(r, n) == IF r < n THEN "first" ELSE "disable"

\* mutant: the pin is left High after sending
DisableValue_High == High

\* the value of the set call that follows the loops
DisableValue == Low

---------------------------------------------------------------------------
(* Initial state: no handle constructed yet *)

Init ==
    /\ pc = "new"
    /\ encoding = "EncodingA"
    /\ protocol = "Protocol1"
    /\ repeat_transmit = 0
    /\ group = <<>>
    /\ device = "A"
    /\ state = "On"
    /\ code_word = <<>>
    /\ code = 0
    /\ rep = 0
    /\ idx = SyncIdx
    /\ writes = <<>>
    /\ pulses = <<>>
    /\ elapsed = 0
    /\ pin_errs = 0
    /\ result = NoResult

---------------------------------------------------------------------------
(* Construction *)

WithRepeatTransmit(P, E, r) ==
    /\ pc = "new"
    /\ pc' = "ready"
    /\ protocol' = P
    /\ encoding' = E
    /\ repeat_transmit' = r
    /\ UNCHANGED <<group, device, state, code_word, code, rep, idx,
                   writes, pulses, elapsed, pin_errs, result>>

New(P, E) == WithRepeatTransmit(P, E, DefaultRepeat)

---------------------------------------------------------------------------
(* send and send_tri_state *)

\* entry of send_tri_state up to the first pin write: fold the code, enter the loop
EnterSendTriState(w) ==
    /\ code_word' = w
    /\ code' = PackCode(w)
    /\ rep' = 0
    /\ idx' = FirstIdx(w)
    /\ pc' = LoopPc(0, repeat_transmit)
    /\ result' = NoResult

Send(g, d, s) ==
    /\ pc = "ready"
    /\ group' = g
    /\ device' = d
    /\ state' = s
    /\ LET r == Encode(encoding, g, d, s)
       IN  IF r.tag = "Ok"
           THEN EnterSendTriState(r.val)
           ELSE /\ result' = r
                /\ pc' = "done"
                /\ UNCHANGED <<code_word, code, rep, idx>>
    /\ UNCHANGED <<encoding, protocol, repeat_transmit, writes, pulses,
                   elapsed, pin_errs>>

\* send_tri_state called on a tri-state word directly
SendTriState(w) ==
    /\ pc = "ready"
    /\ EnterSendTriState(w)
    /\ UNCHANGED <<encoding, protocol, repeat_transmit, group, device, state,
                   writes, pulses, elapsed, pin_errs>>

\* mutant: the result of self.pin.set(first) is dropped instead of propagated
TransmitFirst_IgnoresError(ok) ==
    /\ pc = "first"
    /\ writes' = Append(writes, First(protocol))
    /\ pulses' = Append(pulses, PulseAt(protocol, code, idx))
    /\ pin_errs' = IF ok THEN pin_errs ELSE pin_errs + 1
    /\ elapsed' = elapsed + Delay(Values(protocol).pulse_length
                                  * PulseAt(protocol, code, idx).high)
    /\ pc' = "second"
    /\ UNCHANGED <<encoding, protocol, repeat_transmit, group, device, state,
                   code_word, code, rep, idx, result>>

\* transmit: self.pin.set(first)?; delay(pulse_length * pulses.high)
TransmitFirst(ok) ==
    /\ pc = "first"
    /\ writes' = Append(writes, First(protocol))
    /\ pulses' = Append(pulses, PulseAt(protocol, code, idx))
    /\ IF ok
       THEN /\ elapsed' = elapsed + Delay(Values(protocol).pulse_length
                                          * PulseAt(protocol, code, idx).high)
            /\ pc' = "second"
            /\ UNCHANGED <<result, pin_errs>>
       ELSE /\ pin_errs' = pin_errs + 1
            /\ result' = PinError
            /\ pc' = "done"
            /\ UNCHANGED elapsed
    /\ UNCHANGED <<encoding, protocol, repeat_transmit, group, device, state,
                   code_word, code, rep, idx>>

\* transmit: self.pin.set(second)?; delay(pulse_length * pulses.low); then the
\* loops advance to the next transmit or leave to the trailing set
TransmitSecond(ok) ==
    /\ pc = "second"
    /\ writes' = Append(writes, Second(protocol))
    /\ IF ok
       THEN /\ elapsed' = elapsed + Delay(Values(protocol).pulse_length
                                          * PulseAt(protocol, code, idx).low)
            /\ UNCHANGED <<result, pin_errs>>
            /\ IF idx = SyncIdx
               THEN /\ rep' = rep + 1
                    /\ idx' = FirstIdx(code_word)
                    /\ pc' = LoopPc(rep + 1, repeat_transmit)
               ELSE /\ rep' = rep
                    /\ idx' = IF idx > 0 THEN idx - 1 ELSE SyncIdx
                    /\ pc' = "first"
       ELSE /\ pin_errs' = pin_errs + 1
            /\ result' = PinError
            /\ pc' = "done"
            /\ UNCHANGED <<elapsed, rep, idx>>
    /\ UNCHANGED <<encoding, protocol, repeat_transmit, group, device, state,
                   code_word, code, pulses>>

\* Disable transmit after sending: self.pin.set(&Value::Low)?; Ok(())
DisableTransmit(ok) ==
    /\ pc = "disable"
    /\ writes' = Append(writes, DisableValue)
    /\ IF ok
       THEN /\ result' = Ok(Unit)
            /\ UNCHANGED pin_errs
       ELSE /\ result' = PinError
            /\ pin_errs' = pin_errs + 1
    /\ pc' = "done"
    /\ UNCHANGED <<encoding, protocol, repeat_transmit, group, device, state,
                   code_word, code, rep, idx, pulses, elapsed>>

\* the caller takes the result; the handle (&self) is unchanged and can send
\* again, against a fresh recording of the pin
Return ==
    /\ pc = "done"
    /\ result.tag # "Panic"
    /\ pc' = "ready"
    /\ result' = NoResult
    /\ writes' = <<>>
    /\ pulses' = <<>>
    /\ elapsed' = 0
    /\ pin_errs' = 0
    /\ group' = <<>>
    /\ device' = "A"
    /\ state' = "On"
    /\ code_word' = <<>>
    /\ code' = 0
    /\ rep' = 0
    /\ idx' = SyncIdx
    /\ UNCHANGED <<encoding, protocol, repeat_transmit>>

Next ==
    \/ \E P \in Protocols, E \in Encodings : New(P, E)
    \/ \E P \in Protocols, E \in Encodings, r \in 0..MaxRepeat :
          WithRepeatTransmit(P, E, r)
    \/ \E g \in SendGroups \cup InvalidGroups, d \in Devices, s \in States :
          Send(g, d, s)
    \/ \E ok \in BOOLEAN : TransmitFirst(ok)
    \/ \E ok \in BOOLEAN : TransmitSecond(ok)
    \/ \E ok \in BOOLEAN : DisableTransmit(ok)
    \/ Return

\* the transmitter, driven through its public interface
Spec == Init /\ [][Next]_vars

---------------------------------------------------------------------------
(* send_tri_state applied to tri-state words *)

NextTri ==
    \/ \E P \in Protocols, r \in 0..MaxRepeat :
          WithRepeatTransmit(P, "EncodingA", r)
    \/ \E w \in TriInputs : SendTriState(w)
    \/ \E ok \in BOOLEAN : TransmitFirst(ok)
    \/ \E ok \in BOOLEAN : TransmitSecond(ok)
    \/ \E ok \in BOOLEAN : DisableTransmit(ok)
    \/ Return

SpecTri == Init /\ [][NextTri]_vars

---------------------------------------------------------------------------
(* The encoders applied as pure functions: E::encode(group, device, state) *)

InitEncode ==
    /\ pc = "call"
    /\ encoding \in Encodings
    /\ group \in Groups
    /\ device \in Devices
    /\ state \in States
    /\ protocol = "Protocol1"
    /\ repeat_transmit = 0
    /\ code_word = <<>>
    /\ code = 0
    /\ rep = 0
    /\ idx = SyncIdx
    /\ writes = <<>>
    /\ pulses = <<>>
    /\ elapsed = 0
    /\ pin_errs = 0
    /\ result = NoResult

EncodeCall ==
    /\ pc = "call"
    /\ result' = Encode(encoding, group, device, state)
    /\ pc' = "returned"
    /\ UNCHANGED <<encoding, protocol, repeat_transmit, group, device, state,
                   code_word, code, rep, idx, writes, pulses, elapsed, pin_errs>>

NextEncode == EncodeCall

SpecEncode == InitEncode /\ [][NextEncode]_vars

---------------------------------------------------------------------------
(* Properties *)

InSend == pc \in {"first", "second", "disable", "done"}

SendOk == pc = "done" /\ result = Ok(Unit)

SendFailed == pc = "done" /\ result = PinError

Odd(n) == n % 2 = 1

G10001 == <<"1", "0", "0", "0", "1">>

\* C1: a send of a valid group through encoding A that meets no pin error, on a
\* handle with repeat count k >= 1, issues exactly k*(2*12+1)*2 + 1 set calls:
\* k blocks of 24 bit pulse pairs and one sync pair, then one trailing
\* set(Low) as the last write, and returns Ok; no state of a send holds more.
C1_SendWriteCount ==
    /\ (InSend /\ repeat_transmit >= 1)
          => Len(writes) <= repeat_transmit * (2 * 12 + 1) * 2 + 1
    /\ (SendOk /\ repeat_transmit >= 1)
          => /\ Len(writes) = repeat_transmit * (2 * 12 + 1) * 2 + 1
             /\ Len(pulses) = repeat_transmit * (2 * 12 + 1)
             /\ \A n \in 1..Len(pulses) :
                   IF n % 25 = 0
                   THEN pulses[n] = Values(protocol).sync_factor
                   ELSE /\ pulses[n] \in {Values(protocol).zero, Values(protocol).one}
                        /\ pulses[n] # Values(protocol).sync_factor
             /\ writes[Len(writes)] = Low
             /\ pin_errs = 0

C1_Witness ==
    /\ SendOk
    /\ repeat_transmit = 1
    /\ protocol = "Protocol1"
    /\ group = G10001 /\ device = "A" /\ state = "On"
    /\ Len(writes) = 51

\* C2 (as stated): the writes of send("10001", A, On) with Protocol1 start High
\* and no two consecutive writes, the trailing Low included, share a level.
C2_StrictAlternationThroughout ==
    (SendOk /\ protocol = "Protocol1" /\ repeat_transmit >= 1
       /\ group = G10001 /\ device = "A" /\ state = "On")
    => /\ writes[1] = High
       /\ \A n \in 1..(Len(writes) - 1) : writes[n] # writes[n + 1]

\* C2 (amended): the writes of send("10001", A, On) with Protocol1 start High and
\* alternate strictly through the pulse pairs, i.e. through all writes but the
\* last; the trailing Low repeats the Low that ends the last sync pair.
C2_AlternationUpToTrailingLow ==
    (SendOk /\ protocol = "Protocol1" /\ repeat_transmit >= 1
       /\ group = G10001 /\ device = "A" /\ state = "On")
    => /\ writes[1] = High
       /\ \A n \in 1..(Len(writes) - 2) : writes[n] # writes[n + 1]
       /\ writes[Len(writes) - 1] = Low
       /\ writes[Len(writes)] = Low

C2_Witness ==
    /\ SendOk
    /\ protocol = "Protocol1"
    /\ repeat_transmit = 1
    /\ group = G10001 /\ device = "A" /\ state = "On"
    /\ Len(writes) = 51
    /\ writes[50] = Low /\ writes[51] = Low

\* C3 (as stated): every send that issued at least two set calls, whether it
\* succeeded or the pin failed at call n >= 2, has a set(Low) as its last call.
C3_LowLastOnEveryPath ==
    (pc = "done" /\ Len(writes) >= 2) => writes[Len(writes)] = Low

\* C3 (amended): a send that meets no pin error ends with exactly one set(Low)
\* after its k blocks, as its last write; when the pin fails at its n-th set
\* call, that call is the last one issued and is the ordinary n-th write of the
\* transmission (first or second level of a pulse pair, or the trailing Low):
\* no terminating set(Low) follows a failure.
C3_LowLastOnSuccessOnly ==
    LET total == repeat_transmit * (2 * Len(code_word) + 1) * 2 + 1
        n == Len(writes)
    IN  /\ SendOk => /\ n = total
                     /\ writes[n] = Low
        /\ SendFailed
              => /\ n >= 1 /\ n <= total
                 /\ pin_errs = 1
                 /\ writes[n] = IF n = total THEN Low
                                ELSE IF Odd(n) THEN First(protocol)
                                ELSE Second(protocol)

C3_Witness ==
    /\ SendFailed
    /\ protocol = "Protocol1"
    /\ Len(writes) = 3
    /\ writes[3] = High

\* C4: when the pin returns an error on its n-th set call, send returns that
\* error at once: the failing call is the only failed call and the last call,
\* exactly n calls were issued, and the loops stand where the failure met them
\* (no pulse, repetition or trailing Low after it).
C4_ErrorShortCircuits ==
    LET total == repeat_transmit * (2 * Len(code_word) + 1) * 2 + 1
        block == (2 * Len(code_word) + 1) * 2
        n == Len(writes)
    IN  /\ pin_errs > 0 => (pc = "done" /\ result = PinError /\ pin_errs = 1)
        /\ SendFailed
              => /\ pin_errs = 1
                 /\ n >= 1 /\ n <= total
                 /\ rep = (n - 1) \div block
                 /\ Len(pulses) = IF n = total THEN (n - 1) \div 2
                                  ELSE (n + 1) \div 2

C4_Witness ==
    /\ SendFailed
    /\ protocol = "Protocol1"
    /\ group = G10001 /\ device = "A" /\ state = "On"
    /\ pin_errs = 1
    /\ Len(writes) = 7

\* C5: a send through encoding A whose group is not exactly 5 characters over
\* {0,1} returns InvalidGroup carrying the group unchanged and issues no set
\* call, whatever the device, state, protocol and repeat count.
C5_InvalidGroupRejected ==
    (InSend /\ encoding = "EncodingA" /\ group \notin [1..5 -> {"0", "1"}])
    => /\ pc = "done"
       /\ result = [tag |-> "Err", kind |-> "InvalidGroup", arg |-> group]
       /\ writes = <<>>
       /\ pulses = <<>>

C5_Witness ==
    /\ pc = "done"
    /\ group = <<"1", "0", "0", "2", " ", "1">>
    /\ result = [tag |-> "Err", kind |-> "InvalidGroup",
                 arg |-> <<"1", "0", "0", "2", " ", "1">>]
    /\ repeat_transmit = DefaultRepeat
    /\ writes = <<>>

C6_DeviceIndex(d) ==
    CASE d = "A" -> 1 [] d = "B" -> 2 [] d = "C" -> 3 [] d = "D" -> 4 [] d = "E" -> 5

C6_Expected(g, d, s) ==
    [j \in 1..12 |->
        IF j <= 5 THEN (IF g[j] = "0" THEN "F" ELSE "0")
        ELSE IF j <= 10 THEN (IF j - 5 = C6_DeviceIndex(d) THEN "0" ELSE "F")
        ELSE IF s = "On" THEN <<"0", "F">>[j - 10]
        ELSE <<"F", "0">>[j - 10]]

\* C6 (as stated): for every group in {0,1}^5, device and state,
\* EncodingA::encode returns Ok with 12 symbols over {'0','F'}: symbols 1-5 the
\* group under 0->'F', 1->'0', symbols 6-10 the device pattern under the same
\* mapping, symbols 11-12 '0','F' for On and 'F','0' for Off; and
\* encode("10001", A, On) is "0FFFF0FFFF0F".
C6_StructureWithStatedExample ==
    (pc = "returned" /\ encoding = "EncodingA" /\ group \in [1..5 -> {"0", "1"}])
    => /\ result.tag = "Ok"
       /\ Len(result.val) = 12
       /\ \A j \in 1..12 : result.val[j] \in {"0", "F"}
       /\ result.val = C6_Expected(group, device, state)
       /\ (group = G10001 /\ device = "A" /\ state = "On")
             => result.val
                  = <<"0", "F", "F", "F", "F", "0", "F", "F", "F", "F", "0", "F">>

\* C6 (amended): the same structure, with the example as the mapping gives
\* it: encode("10001", A, On) is "0FFF00FFFF0F" (the group's last switch, 1,
\* maps to '0').
C6_EncodingAStructure ==
    (pc = "returned" /\ encoding = "EncodingA" /\ group \in [1..5 -> {"0", "1"}])
    => /\ result.tag = "Ok"
       /\ Len(result.val) = 12
       /\ \A j \in 1..12 : result.val[j] \in {"0", "F"}
       /\ result.val = C6_Expected(group, device, state)
       /\ (group = G10001 /\ device = "A" /\ state = "On")
             => result.val
                  = <<"0", "F", "F", "F", "0", "0", "F", "F", "F", "F", "0", "F">>

C6_Witness ==
    /\ pc = "returned"
    /\ encoding = "EncodingA"
    /\ group = G10001 /\ device = "A" /\ state = "On"
    /\ result = [tag |-> "Ok",
                 val |-> <<"0", "F", "F", "F", "0", "0", "F", "F", "F", "F", "0", "F">>]

\* C7 (as stated): a send on a handle bound to encoding B or C returns a
\* NotImplemented error value to its caller, with no pin activity.
C7_NotImplementedReturned ==
    (pc = "done" /\ encoding \in {"EncodingB", "EncodingC"})
    => /\ result = [tag |-> "Err", kind |-> "NotImplemented"]
       /\ writes = <<>>

\* C8 (as stated): every constructed handle has repeat_transmit >= 1, so every
\* successful send emits at least one complete block of bits and sync.
C8_RepeatAtLeastOne ==
    /\ pc # "new" => repeat_transmit >= 1
    /\ SendOk => Len(pulses) >= 2 * Len(code_word) + 1

C9_SymbolBits(c) ==
    CASE c = "0" -> <<0, 0>> [] c = "F" -> <<0, 1>> [] c = "1" -> <<1, 1>>

C9_Pair(P, b) == IF b = 1 THEN Values(P).one ELSE Values(P).zero

C9_ExpectedPulse(P, w, n) ==
    LET pos == ((n - 1) % (2 * Len(w) + 1)) + 1
    IN  IF pos = 2 * Len(w) + 1
        THEN Values(P).sync_factor
        ELSE C9_Pair(P, C9_SymbolBits(w[(pos + 1) \div 2])[2 - (pos % 2)])

\* C9: the word is packed two bits per symbol ('0'->00, 'F'->01, '1'->11), the
\* first symbol in the highest bits, into a code below 2^(2L) (below 2^24 for
\* L = 12, far from the width of the u64); each repetition transmits bits 2L-1
\* down to 0, a set bit as the one pair and a clear bit as the zero pair, so
\* symbol j yields pulse pairs 2j-1 and 2j, and the sync pair follows bit 0.
C9_MsbFirstOrder ==
    LET L == Len(code_word)
    IN  InSend =>
          /\ code >= 0 /\ code < 4 ^ L
          /\ L = 12 => code < 2 ^ 24
          /\ \A i \in 0..(2 * L - 1) :
                (code \div (2 ^ i)) % 2
                   = C9_SymbolBits(code_word[L - (i \div 2)])[2 - (i % 2)]
          /\ \A n \in 1..Len(pulses) :
                /\ pulses[n] = C9_ExpectedPulse(protocol, code_word, n)
                /\ LET pos == ((n - 1) % (2 * L + 1)) + 1
                   IN  pos <= 2 * L
                         => pulses[n] = C9_Pair(protocol,
                                                (code \div (2 ^ (2 * L - pos))) % 2)

C9_Witness ==
    /\ SendOk
    /\ code_word = <<"1", "F", "0">>
    /\ code = 52
    /\ repeat_transmit = 2
    /\ Len(pulses) = 14

\* C10: polarity is fixed by the protocol for the whole send: each pulse pair
\* writes Low then High with ProtocolHT6P20B and High then Low with the six
\* other protocols, so the first write is Low resp. High; the one write after
\* the pulse pairs is Low whatever the polarity.
C10_PolarityPerProtocol ==
    LET first  == IF protocol = "ProtocolHT6P20B" THEN Low ELSE High
        second == IF protocol = "ProtocolHT6P20B" THEN High ELSE Low
    IN  InSend =>
          /\ Len(writes) <= 2 * Len(pulses) + 1
          /\ \A n \in 1..Len(writes) :
                writes[n] = IF n > 2 * Len(pulses) THEN Low
                            ELSE IF Odd(n) THEN first ELSE second
          /\ SendOk => Len(writes) = 2 * Len(pulses) + 1

C10_Witness ==
    /\ SendOk
    /\ protocol = "ProtocolHT6P20B"
    /\ repeat_transmit = 1
    /\ writes[1] = Low /\ writes[2] = High
    /\ writes[50] = High /\ writes[51] = Low

=============================================================================
